---------------------------- MODULE Spec2Model ----------------------------
(* Personal Finance Tracker (budget_tracker.py): one Streamlit script that  *)
(* is executed top to bottom on every page load, tab change and form        *)
(* submission.  Each run reads the three worksheets, coerces the rows,      *)
(* computes the 28th-to-28th accounting period from today's date, filters   *)
(* the rows to the period and renders the selected tab.                     *)
EXTENDS Integers, Sequences, FiniteSets, TLC

VARIABLES
    today,        \* the date datetime.today() returns on the server
    menu,         \* the tab chosen in the "Select View" radio
    ws_expenses,  \* rows of the "Expenses" worksheet (raw cells)
    ws_income,    \* rows of the "Income" worksheet (raw cells)
    ws_budget,    \* rows of the "Budget" worksheet
    jakarta,      \* the calendar date of datetime.now(Asia/Jakarta)
    clock,        \* the time of day of datetime.now(), in seconds
    pc,           \* where this session is: "idle", the page waits for its
                  \* user; "read", a run has read the Expenses sheet;
                  \* "form", the run has reached a form with an accepted
                  \* entry; "stamped", the row is built; "rerun", the row
                  \* is appended and st.rerun() has ended the run
    expenses_records,  \* what the run in progress read at line 57, until
                       \* the frames are made of it
    form,         \* the entry of the submitted form, then the row built
    other,        \* the row another session has built and not yet appended
    run           \* the frames of the last run and what it rendered

vars == <<today, menu, ws_expenses, ws_income, ws_budget, jakarta, clock,
          pc, expenses_records, form, other, run>>

-----------------------------------------------------------------------------
(* Bounds of the model.                                                     *)

\* Number of years after the first one that the calendar walk covers.
YearSpan == 2
\* Largest number of rows a worksheet holds.
MaxRows == 2
\* Largest value of the clock that stamps appended rows.
MaxClock == 3

Years == 2023 .. (2023 + YearSpan)

-----------------------------------------------------------------------------
(* Calendar dates (datetime.date, pandas Timestamp at midnight).            *)

Date(y, m, d) == [y |-> y, m |-> m, d |-> d]

\* pandas NaT: what an unparseable date cell coerces to.
NaT == [y |-> 0, m |-> 0, d |-> 0]

IsLeap(y) == (y % 4 = 0 /\ y % 100 # 0) \/ y % 400 = 0

DaysInMonth(y, m) ==
    IF m = 2 THEN (IF IsLeap(y) THEN 29 ELSE 28)
    ELSE IF m \in {4, 6, 9, 11} THEN 30 ELSE 31

ValidDate(dt) ==
    /\ dt.y >= 1
    /\ dt.m \in 1..12
    /\ dt.d >= 1
    /\ dt.d <= DaysInMonth(dt.y, dt.m)

\* a < b on dates
Before(a, b) ==
    \/ a.y < b.y
    \/ a.y = b.y /\ a.m < b.m
    \/ a.y = b.y /\ a.m = b.m /\ a.d < b.d

\* a <= b on dates
NotAfter(a, b) == a = b \/ Before(a, b)

\* The day after dt: how datetime.today() moves from one run to a later one.
NextDay(dt) ==
    IF dt.d < DaysInMonth(dt.y, dt.m) THEN Date(dt.y, dt.m, dt.d + 1)
    ELSE IF dt.m < 12 THEN Date(dt.y, dt.m + 1, 1)
    ELSE Date(dt.y + 1, 1, 1)

\* The day before dt.
PrevDay(dt) ==
    IF dt.d > 1 THEN Date(dt.y, dt.m, dt.d - 1)
    ELSE IF dt.m > 1 THEN Date(dt.y, dt.m - 1, DaysInMonth(dt.y, dt.m - 1))
    ELSE Date(dt.y - 1, 12, 31)

\* Lines 114, 206: the calendar date of datetime.now(Asia/Jakarta) when
\* datetime.today() in the server's zone is td.  The server's zone is not
\* fixed by the code, so the Jakarta date is td or a day either side of it;
\* it stays what it is for as long as today stays what it is.
JakartaDates(td) == {PrevDay(td), td, NextDay(td)}

\* date.replace(day=n)
ReplaceDay(dt, n) == Date(dt.y, dt.m, n)

\* A slip in the month arithmetic: the year does not follow a wrap.
AddMonthsSameYear(dt, n) ==
    LET m0 == dt.m + n
        m1 == IF m0 > 12 THEN m0 - 12 ELSE IF m0 < 1 THEN m0 + 12 ELSE m0
        last == DaysInMonth(dt.y, m1)
    IN  Date(dt.y, m1, IF dt.d < last THEN dt.d ELSE last)

\* dt + relativedelta(months=n) for n in {-1, +1}: the month moves, the year
\* follows a wrap, and the day is clipped to the length of the new month.
AddMonths(dt, n) ==
    LET m0 == dt.m + n
        y1 == IF m0 > 12 THEN dt.y + 1 ELSE IF m0 < 1 THEN dt.y - 1 ELSE dt.y
        m1 == IF m0 > 12 THEN m0 - 12 ELSE IF m0 < 1 THEN m0 + 12 ELSE m0
        last == DaysInMonth(y1, m1)
    IN  Date(y1, m1, IF dt.d < last THEN dt.d ELSE last)

\* A slip in the branch test: the 28th itself falls into the old period.
RollsForwardStrict(td) == td.d > 28

\* Line 76: the branch test of the period computation.
RollsForward(td) == td.d >= 28

\* Lines 75-81: the accounting period of a given today.
Period(td) ==
    IF RollsForward(td)
    THEN LET period_start == ReplaceDay(td, 28)
         IN  [period_start |-> period_start,
              period_end   |-> AddMonths(period_start, 1)]
    ELSE LET period_end == ReplaceDay(td, 28)
         IN  [period_start |-> AddMonths(period_end, 0 - 1),
              period_end   |-> period_end]


-----------------------------------------------------------------------------
(* Worksheet cells as get_all_records() returns them.                       *)
(* A date cell holds the text M/D/YYYY, kept as its three printed fields;   *)
(* text that is not a date is kept as fields that no calendar has.  An      *)
(* amount cell is a number (gspread turns numeric text into a number) or    *)
(* text that is no number.                                                  *)

DateCell(m, d, y) == [m |-> m, d |-> d, y |-> y]
BlankDate == [m |-> 0, d |-> 0, y |-> 0]

\* "MM/DD/YYYY HH:MM:SS": a date and the time of day in seconds.
StampCell(m, d, y, s) == [m |-> m, d |-> d, y |-> y, s |-> s]
BlankStamp == [m |-> 0, d |-> 0, y |-> 0, s |-> 0]

NumCell(n) == [num |-> TRUE, val |-> n]
TextCell == [num |-> FALSE, val |-> 0]

\* pandas NaN / NaT of the coerced columns.
NaN == [nan |-> TRUE, v |-> 0]
NaTStamp == [y |-> 0, m |-> 0, d |-> 0, s |-> 0]

\* pd.to_numeric(col, errors="coerce") on one cell.
to_numeric(cell) == IF cell.num THEN [nan |-> FALSE, v |-> cell.val] ELSE NaN

\* pd.to_datetime(col, errors="coerce") on one date cell.
to_datetime(cell) ==
    LET dt == Date(cell.y, cell.m, cell.d)
    IN  IF ValidDate(dt) THEN dt ELSE NaT

\* pd.to_datetime(col, errors="coerce") on one timestamp cell.
to_datetime_stamp(cell) ==
    IF ValidDate(Date(cell.y, cell.m, cell.d)) /\ cell.s \in 0..86399
    THEN [y |-> cell.y, m |-> cell.m, d |-> cell.d, s |-> cell.s]
    ELSE NaTStamp

\* date.strftime("%m/%d/%Y")
strftime(dt) == DateCell(dt.m, dt.d, dt.y)

\* datetime.now(...).strftime("%m/%d/%Y %H:%M:%S")
strftime_now(dt, s) == StampCell(dt.m, dt.d, dt.y, s)

-----------------------------------------------------------------------------
(* Lines 57-72: load and preprocess.                                        *)

\* The coerced columns of expense row i, before any dropna.
CoerceExpense(ws, i) ==
    [idx            |-> i,
     Timestamp      |-> to_datetime_stamp(ws[i].Timestamp),
     User           |-> ws[i].User,
     Purchase_Date  |-> to_datetime(ws[i].Purchase_Date),
     Item           |-> ws[i].Item,
     Amount         |-> to_numeric(ws[i].Amount),
     Category       |-> ws[i].Category,
     Payment_Method |-> ws[i].Payment_Method]

\* dropna(subset=["Amount"]) and dropna(subset=["Purchase Date","Timestamp"])
KeepExpense(r) ==
    /\ ~r.Amount.nan
    /\ r.Purchase_Date # NaT
    /\ r.Timestamp # NaTStamp

\* expenses_df after lines 62-67.
PreprocessExpenses(ws) ==
    SelectSeq([i \in 1..Len(ws) |-> CoerceExpense(ws, i)], KeepExpense)

CoerceIncome(ws, i) ==
    [idx           |-> i,
     Timestamp     |-> ws[i].Timestamp,
     User          |-> ws[i].User,
     Date          |-> to_datetime(ws[i].Date),
     Source        |-> ws[i].Source,
     Description   |-> ws[i].Description,
     Income_Amount |-> to_numeric(ws[i].Income_Amount)]

\* dropna(subset=["Date", "Income Amount"])
KeepIncome(r) == r.Date # NaT /\ ~r.Income_Amount.nan

\* income_df after lines 69-72.
PreprocessIncome(ws) ==
    SelectSeq([i \in 1..Len(ws) |-> CoerceIncome(ws, i)], KeepIncome)

-----------------------------------------------------------------------------
(* Lines 83-94: the period filter.                                          *)

\* A slip in the filter: the end of the period is taken in.
InPeriodClosed(dt, period_start, period_end) ==
    NotAfter(period_start, dt) /\ NotAfter(dt, period_end)

\* (col >= period_start_dt) & (col < period_end_dt)
InPeriod(dt, period_start, period_end) ==
    NotAfter(period_start, dt) /\ Before(dt, period_end)

expenses_period_of(df, p) ==
    SelectSeq(df, LAMBDA r : InPeriod(r.Purchase_Date, p.period_start, p.period_end))

income_period_of(df, p) ==
    SelectSeq(df, LAMBDA r : InPeriod(r.Date, p.period_start, p.period_end))

-----------------------------------------------------------------------------
(* Aggregations.                                                            *)

RECURSIVE SumSeq(_)
\* Series.sum() of a sequence of numbers.
SumSeq(xs) == IF xs = <<>> THEN 0 ELSE Head(xs) + SumSeq(Tail(xs))

\* df["Amount"].sum()
AmountSum(df) == SumSeq([i \in 1..Len(df) |-> df[i].Amount.v])

\* df["Income Amount"].sum()
IncomeAmountSum(df) == SumSeq([i \in 1..Len(df) |-> df[i].Income_Amount.v])

\* df.groupby("Category")["Amount"].sum(): one entry per category present.
GroupByCategory(df) ==
    [c \in {df[i].Category : i \in 1..Len(df)} |->
        AmountSum(SelectSeq(df, LAMBDA r : r.Category = c))]

\* df.groupby("User")["Amount"].sum(): one entry per user present.
GroupByUser(df) ==
    [u \in {df[i].User : i \in 1..Len(df)} |->
        AmountSum(SelectSeq(df, LAMBDA r : r.User = u))]

\* Line 123.
target_categories == <<"Bills", "Food & Drink", "Transport">>

\* Lines 124-127: filter to the target categories, group, left-merge the
\* target list with the sums and fill the gaps with 0.
CategorySpending(expenses_period) ==
    LET InTarget(r) == \E k \in 1..Len(target_categories) :
                            r.Category = target_categories[k]
        filtered == SelectSeq(expenses_period, InTarget)
        sums == GroupByCategory(filtered)
    IN  [k \in 1..Len(target_categories) |->
            [Category |-> target_categories[k],
             Amount   |-> IF target_categories[k] \in DOMAIN sums
                          THEN sums[target_categories[k]] ELSE 0]]

\* Number of rows df.tail(25) keeps.
RecentN == 25

\* df.tail(n): the last n rows, in the order of the frame.
TailRows(df, n) ==
    IF Len(df) <= n THEN df ELSE SubSeq(df, Len(df) - n + 1, Len(df))

\* Lines 189-191: the recent-transactions table: the last rows of the frame,
\* the purchase date as a date and the Timestamp column dropped.
RecentTransactions(expenses_df) ==
    LET last == TailRows(expenses_df, RecentN)
    IN  [k \in 1..Len(last) |->
            [idx            |-> last[k].idx,
             User           |-> last[k].User,
             Purchase_Date  |-> last[k].Purchase_Date,
             Item           |-> last[k].Item,
             Amount         |-> last[k].Amount,
             Category       |-> last[k].Category,
             Payment_Method |-> last[k].Payment_Method]]

\* Lines 247-250: budget left-merged with the period spend per category.
Merged(budget_df, expenses_period) ==
    LET df_sum == GroupByCategory(expenses_period)
    IN  [k \in 1..Len(budget_df) |->
            LET b == budget_df[k]
                amount == IF b.Category \in DOMAIN df_sum
                          THEN df_sum[b.Category] ELSE 0
            IN  [Category     |-> b.Category,
                 Mikael       |-> b.Mikael,
                 Josephine    |-> b.Josephine,
                 Total_Budget |-> b.Total_Budget,
                 Amount       |-> amount,
                 Remaining    |-> b.Total_Budget - amount]]

DigitChar(k) == <<"0", "1", "2", "3", "4", "5", "6", "7", "8", "9">>[k + 1]

RECURSIVE Digits(_)
\* The decimal digits of n >= 0.
Digits(n) ==
    IF n < 10 THEN <<DigitChar(n)>>
    ELSE Digits(n \div 10) \o <<DigitChar(n % 10)>>

RECURSIVE Grouped(_)
\* f"{n:,.0f}" for a whole n >= 0: digits in groups of three.
Grouped(n) ==
    IF n < 1000 THEN Digits(n)
    ELSE Grouped(n \div 1000)
         \o <<",", DigitChar((n % 1000) \div 100),
                   DigitChar((n % 100) \div 10), DigitChar(n % 10)>>

\* Line 255: lambda x: f"{x:,.0f}" if x >= 0 else "0"
DisplayCell(x) == IF x >= 0 THEN Grouped(x) ELSE <<"0">>

\* Lines 253-255: the table shown, every numeric column as text.
Display(df_merged) ==
    [k \in 1..Len(df_merged) |->
        [Category     |-> df_merged[k].Category,
         Mikael       |-> DisplayCell(df_merged[k].Mikael),
         Josephine    |-> DisplayCell(df_merged[k].Josephine),
         Total_Budget |-> DisplayCell(df_merged[k].Total_Budget),
         Amount       |-> DisplayCell(df_merged[k].Amount),
         Remaining    |-> DisplayCell(df_merged[k].Remaining)]]

\* Lines 264-268: the colour condition of the chart.
BarColor(row) == IF row.Amount > row.Total_Budget THEN "red" ELSE "green"

BarColors(df_merged) == [k \in 1..Len(df_merged) |-> BarColor(df_merged[k])]

-----------------------------------------------------------------------------
(* One run of the script, top to bottom.                                    *)

Menus == {"Expenses", "Income", "Budget"}

\* Lines 120-191: what the Expenses tab renders below its form.
ExpensesTab(r) ==
    LET has_period == r.expenses_period # <<>>
        has_rows   == r.expenses_df # <<>>
    IN  [r EXCEPT
          !.rendered = (IF has_period
                        THEN {"category_spending", "user_spending"} ELSE {})
                       \cup (IF has_rows THEN {"df_show"} ELSE {}),
          !.category_spending = IF has_period
                                THEN CategorySpending(r.expenses_period)
                                ELSE <<>>,
          !.user_spending = IF has_period
                            THEN GroupByUser(r.expenses_period) ELSE <<>>,
          !.df_show = IF has_rows
                      THEN RecentTransactions(r.expenses_df) ELSE <<>>]

\* Lines 212-239: what the Income tab renders below its form.
IncomeTab(r) ==
    [r EXCEPT
      !.rendered = {"inc_exp_df"},
      !.inc_exp_df =
          <<[Type |-> "Income", Amount |-> IncomeAmountSum(r.income_period)],
            [Type |-> "Expenses", Amount |-> AmountSum(r.expenses_period)]>>]

\* Lines 242-273: the Budget tab.
BudgetTab(r, budget_df) ==
    IF budget_df # <<>> /\ r.expenses_period # <<>>
    THEN LET df_merged == Merged(budget_df, r.expenses_period)
         IN  [r EXCEPT
               !.rendered = {"display_df", "bar"},
               !.df_merged = df_merged,
               !.display_df = Display(df_merged),
               !.bar = BarColors(df_merged)]
    ELSE [r EXCEPT !.rendered = {"info"}]

\* Lines 57-94: load, preprocess, period and filter.  A worksheet with no
\* data row loads as a frame without columns, and the column lookup of the
\* period filter then raises KeyError; the run ends there.
Load(td, we, wi) ==
    LET p == Period(td)
        expenses_df == PreprocessExpenses(we)
        income_df == PreprocessIncome(wi)
        loaded ==
            [status            |-> "ok",
             expenses_records  |-> we,
             period_start      |-> p.period_start,
             period_end        |-> p.period_end,
             expenses_df       |-> expenses_df,
             income_df         |-> income_df,
             expenses_period   |-> <<>>,
             income_period     |-> <<>>,
             rendered          |-> {},
             category_spending |-> <<>>,
             user_spending     |-> <<>>,
             df_show           |-> <<>>,
             inc_exp_df        |-> <<>>,
             df_merged         |-> <<>>,
             display_df        |-> <<>>,
             bar               |-> <<>>]
    IN  IF we = <<>> \/ wi = <<>>
        THEN [loaded EXCEPT !.status = "KeyError"]
        ELSE [loaded EXCEPT
               !.expenses_period = expenses_period_of(expenses_df, p),
               !.income_period = income_period_of(income_df, p)]

\* Lines 96-273: the selected tab, in a run that st.rerun() does not cut
\* short.
Render(filtered, mn, wb) ==
    IF filtered.status = "KeyError" THEN filtered
    ELSE CASE mn = "Expenses" -> ExpensesTab(filtered)
           [] mn = "Income"   -> IncomeTab(filtered)
           [] mn = "Budget"   -> BudgetTab(filtered, wb)

\* Lines 57-273: a whole run over sheets that nothing else writes meanwhile.
Script(td, mn, we, wi, wb) == Render(Load(td, we, wi), mn, wb)

-----------------------------------------------------------------------------
(* Rows found in the worksheets at the start.  The sheet is edited by hand  *)
(* as well as through the forms, so a cell may hold anything.  Each row     *)
(* differs from a well-formed one in at most one column.                    *)

ExpenseRow(ts, u, pd, it, a, c, pm) ==
    [Timestamp |-> ts, User |-> u, Purchase_Date |-> pd, Item |-> it,
     Amount |-> a, Category |-> c, Payment_Method |-> pm]

IncomeRow(ts, u, d, src, desc, a) ==
    [Timestamp |-> ts, User |-> u, Date |-> d, Source |-> src,
     Description |-> desc, Income_Amount |-> a]

BudgetRow(c, mi, jo, total) ==
    [Category |-> c, Mikael |-> mi, Josephine |-> jo, Total_Budget |-> total]

BaseExpense ==
    ExpenseRow(StampCell(2, 28, 2024, 60), "Mikael", DateCell(2, 28, 2024),
               "Rent", NumCell(250), "Bills", "Debit")

SheetExpenseRows ==
    LET all == { ExpenseRow(ts, "Mikael", pd, "Rent", a, c, "Debit") :
                   ts \in {StampCell(2, 28, 2024, 60), BlankStamp},
                   pd \in {DateCell(2, 28, 2024), DateCell(3, 28, 2024),
                           DateCell(2, 30, 2024)},
                   a  \in {NumCell(250), NumCell(0 - 50), TextCell},
                   c  \in {"Bills"} }
        Off(r) == {f \in {"Timestamp", "Purchase_Date", "Amount", "Category"} :
                      r[f] # BaseExpense[f]}
    IN  {r \in all : Cardinality(Off(r)) <= 1}

BaseIncome ==
    IncomeRow(StampCell(2, 28, 2024, 30), "Josephine", DateCell(2, 28, 2024),
              "Salary", "Pay", NumCell(500))

SheetIncomeRows ==
    LET all == { IncomeRow(StampCell(2, 28, 2024, 30), "Josephine", d,
                           "Salary", "Pay", a) :
                   d \in {DateCell(2, 28, 2024), DateCell(3, 28, 2024)},
                   a \in {NumCell(500)} }
        Off(r) == {f \in {"Date", "Income_Amount"} : r[f] # BaseIncome[f]}
    IN  {r \in all : Cardinality(Off(r)) <= 1}

SheetBudgets ==
    { <<BudgetRow("Bills", 120, 80, 200), BudgetRow("Transport", 1000, 500, 1500)>> }

SeqsUpTo(S, n) == UNION {[1..k -> S] : k \in 0..n}

\* The sheets of at most n rows in which at most one row is not the
\* well-formed one.
SheetsUpTo(S, base, n) ==
    {ws \in SeqsUpTo(S, n) :
        Cardinality({i \in 1..Len(ws) : ws[i] # base}) <= 1}

TodayChoices == {Date(2024, 3, 15)}

-----------------------------------------------------------------------------
(* What the widgets of the two forms can return.                            *)

FormUsers == {"Josephine"}
FormItems == {"", "Lunch"}
\* number_input(min_value=0.01): whole amounts, all above the minimum
FormAmounts == {100}
FormCategories == {"Shopping"}
FormDescriptions == {"", "Gig"}

-----------------------------------------------------------------------------
(* The state machine.  A run of the script is a sequence of blocking calls  *)
(* to the spreadsheet; every browser session runs in a thread of its own    *)
(* against the same spreadsheet, so the calls of two sessions interleave.   *)

NoForm == [kind |-> "none"]
NoRow == [sheet |-> "none"]

Init ==
    /\ today \in TodayChoices
    /\ menu = "Expenses"
    /\ ws_expenses \in SheetsUpTo(SheetExpenseRows, BaseExpense, MaxRows)
    /\ ws_income \in SheetsUpTo(SheetIncomeRows, BaseIncome, MaxRows)
    /\ ws_budget \in SheetBudgets
    /\ jakarta \in JakartaDates(today)
    /\ clock = 1
    /\ pc = "idle"
    /\ expenses_records = <<>>
    /\ form = NoForm
    /\ other = NoRow
    /\ run = Script(today, menu, ws_expenses, ws_income, ws_budget)

\* Line 57: a run starts and reads the Expenses worksheet.
ReadExpenses ==
    /\ expenses_records' = ws_expenses
    /\ pc' = "read"

\* Line 20: another tab is chosen; the script runs again.
SelectMenu ==
    /\ pc = "idle"
    /\ \E m \in Menus \ {menu} : menu' = m
    /\ form' = NoForm
    /\ ReadExpenses
    /\ UNCHANGED <<today, ws_expenses, ws_income, ws_budget, jakarta, clock,
                   other, run>>

\* Lines 101-111: the expense form on the page is filled in and its button
\* is pressed; the script runs again, with the entry in the widgets.
SubmitExpense ==
    /\ pc = "idle"
    /\ run.status = "ok"
    /\ menu = "Expenses"
    /\ Len(ws_expenses) < MaxRows
    /\ clock < MaxClock
    /\ \E user \in FormUsers, item \in FormItems, amount \in FormAmounts,
          category \in FormCategories :
          form' = [kind |-> "expense", user |-> user, purchase_date |-> today,
                   item |-> item, amount |-> amount, category |-> category,
                   payment_method |-> "Cash"]
    /\ ReadExpenses
    /\ UNCHANGED <<today, menu, ws_expenses, ws_income, ws_budget, jakarta,
                   clock, other, run>>

\* Lines 198-203: the income form is submitted, as the expense form is.
SubmitIncome ==
    /\ pc = "idle"
    /\ run.status = "ok"
    /\ menu = "Income"
    /\ Len(ws_income) < MaxRows
    /\ clock < MaxClock
    /\ \E income_user \in FormUsers, income_desc \in FormDescriptions,
          income_amt \in FormAmounts :
          form' = [kind |-> "income", income_user |-> income_user,
                   income_date |-> today, income_source |-> "Freelance",
                   income_desc |-> income_desc, income_amt |-> income_amt]
    /\ ReadExpenses
    /\ UNCHANGED <<today, menu, ws_expenses, ws_income, ws_budget, jakarta,
                   clock, other, run>>

\* Lines 113 and 205: the conditions under which a form appends its entry.
Accepted(f) ==
    CASE f.kind = "expense" -> f.item # "" /\ f.amount > 0
      [] f.kind = "income"  -> f.income_amt > 0
      [] OTHER              -> FALSE

\* Lines 58-94 and the tab: the run reads the Income and Budget worksheets,
\* coerces and filters the rows it has read, and goes down the selected tab.
\* With an accepted entry in the form of that tab it stops at the form, to
\* stamp and append the entry; otherwise it renders the tab to its end.
ReadRest ==
    /\ pc = "read"
    /\ LET filtered == Load(today, expenses_records, ws_income)
       IN  IF filtered.status = "ok" /\ Accepted(form)
           THEN /\ run' = filtered
                /\ pc' = "form"
                /\ UNCHANGED form
           ELSE /\ run' = Render(filtered, menu, ws_budget)
                /\ pc' = "idle"
                /\ form' = NoForm
    /\ expenses_records' = <<>>
    /\ UNCHANGED <<today, menu, ws_expenses, ws_income, ws_budget, jakarta,
                   clock, other>>

\* Lines 114-115: the clock of Asia/Jakarta is read and the row is built.
StampExpense ==
    /\ pc = "form"
    /\ form.kind = "expense"
    /\ clock < MaxClock
    /\ LET timestamp == strftime_now(jakarta, clock)
           row == ExpenseRow(timestamp, form.user,
                             strftime(form.purchase_date), form.item,
                             NumCell(form.amount), form.category,
                             form.payment_method)
       IN  form' = [kind |-> "expense_row", row |-> row]
    /\ clock' = clock + 1
    /\ pc' = "stamped"
    /\ UNCHANGED <<today, menu, ws_expenses, ws_income, ws_budget, jakarta,
                   expenses_records, other, run>>

\* Lines 116-118: the row is appended to the sheet as the sheet is by then,
\* and st.rerun() ends the run; nothing below the form is rendered.
AppendExpense ==
    /\ pc = "stamped"
    /\ form.kind = "expense_row"
    /\ Len(ws_expenses) < MaxRows
    /\ ws_expenses' = Append(ws_expenses, form.row)
    /\ form' = NoForm
    /\ pc' = "rerun"
    /\ UNCHANGED <<today, menu, ws_income, ws_budget, jakarta, clock,
                   expenses_records, other, run>>

\* Lines 206-207.
StampIncome ==
    /\ pc = "form"
    /\ form.kind = "income"
    /\ clock < MaxClock
    /\ LET timestamp == strftime_now(jakarta, clock)
           row == IncomeRow(timestamp, form.income_user,
                            strftime(form.income_date), form.income_source,
                            form.income_desc, NumCell(form.income_amt))
       IN  form' = [kind |-> "income_row", row |-> row]
    /\ clock' = clock + 1
    /\ pc' = "stamped"
    /\ UNCHANGED <<today, menu, ws_expenses, ws_income, ws_budget, jakarta,
                   expenses_records, other, run>>

\* Lines 208-210.
AppendIncome ==
    /\ pc = "stamped"
    /\ form.kind = "income_row"
    /\ Len(ws_income) < MaxRows
    /\ ws_income' = Append(ws_income, form.row)
    /\ form' = NoForm
    /\ pc' = "rerun"
    /\ UNCHANGED <<today, menu, ws_expenses, ws_budget, jakarta, clock,
                   expenses_records, other, run>>

\* Lines 118, 210: the run that st.rerun() asked for starts.
RunAgain ==
    /\ pc = "rerun"
    /\ ReadExpenses
    /\ UNCHANGED <<today, menu, ws_expenses, ws_income, ws_budget, jakarta,
                   clock, form, other, run>>

\* Lines 114-115 in another browser session: the app's other user has an
\* expense accepted by the same form, and that run stamps its row.
OtherSessionExpense ==
    /\ other = NoRow
    /\ ws_expenses # <<>> /\ ws_income # <<>>
    /\ Len(ws_expenses) < MaxRows
    /\ clock < MaxClock
    /\ \E user \in FormUsers, item \in FormItems \ {""},
          amount \in FormAmounts, category \in FormCategories :
          other' = [sheet |-> "Expenses",
                    row |-> ExpenseRow(strftime_now(jakarta, clock), user,
                                       strftime(today), item, NumCell(amount),
                                       category, "Cash")]
    /\ clock' = clock + 1
    /\ UNCHANGED <<today, menu, ws_expenses, ws_income, ws_budget, jakarta,
                   pc, expenses_records, form, run>>

\* Lines 206-207 in another browser session, whose user fills in the
\* description.
OtherSessionIncome ==
    /\ other = NoRow
    /\ ws_expenses # <<>> /\ ws_income # <<>>
    /\ Len(ws_income) < MaxRows
    /\ clock < MaxClock
    /\ \E income_user \in FormUsers, income_desc \in FormDescriptions \ {""},
          income_amt \in FormAmounts :
          other' = [sheet |-> "Income",
                    row |-> IncomeRow(strftime_now(jakarta, clock),
                                      income_user, strftime(today),
                                      "Freelance", income_desc,
                                      NumCell(income_amt))]
    /\ clock' = clock + 1
    /\ UNCHANGED <<today, menu, ws_expenses, ws_income, ws_budget, jakarta,
                   pc, expenses_records, form, run>>

\* Lines 116 and 208 in the other session: its row reaches the sheet.
OtherSessionAppend ==
    /\ other # NoRow
    /\ IF other.sheet = "Expenses"
       THEN /\ Len(ws_expenses) < MaxRows
            /\ ws_expenses' = Append(ws_expenses, other.row)
            /\ UNCHANGED ws_income
       ELSE /\ Len(ws_income) < MaxRows
            /\ ws_income' = Append(ws_income, other.row)
            /\ UNCHANGED ws_expenses
    /\ other' = NoRow
    /\ UNCHANGED <<today, menu, ws_budget, jakarta, clock, pc,
                   expenses_records, form, run>>

Next ==
    \/ SelectMenu
    \/ SubmitExpense
    \/ SubmitIncome
    \/ ReadRest
    \/ StampExpense
    \/ AppendExpense
    \/ StampIncome
    \/ AppendIncome
    \/ RunAgain
    \/ OtherSessionExpense
    \/ OtherSessionIncome
    \/ OtherSessionAppend

Spec == Init /\ [][Next]_vars

-----------------------------------------------------------------------------
(* The calendar walk: the page is loaded once a day, the sheets unchanged.  *)

InitPeriod ==
    /\ today = Date(2023, 1, 1)
    /\ menu = "Expenses"
    /\ ws_expenses = <<BaseExpense>>
    /\ ws_income = <<BaseIncome>>
    /\ ws_budget = <<>>
    /\ jakarta = today
    /\ clock = 1
    /\ pc = "idle"
    /\ expenses_records = <<>>
    /\ form = NoForm
    /\ other = NoRow
    /\ run = Script(today, menu, ws_expenses, ws_income, ws_budget)

\* Line 75: midnight passes, and the page is loaded on the new day.
DayPasses ==
    /\ pc = "idle"
    /\ NextDay(today).y \in Years
    /\ today' = NextDay(today)
    /\ jakarta' = NextDay(jakarta)
    /\ ReadExpenses
    /\ UNCHANGED <<menu, ws_expenses, ws_income, ws_budget, clock, form,
                   other, run>>

NextPeriod ==
    \/ DayPasses
    \/ ReadRest

SpecPeriod == InitPeriod /\ [][NextPeriod]_vars

-----------------------------------------------------------------------------
(* Properties.                                                              *)

\* The 28th of the month after (y, m) and of the month before it.
Next28(y, m) == IF m = 12 THEN Date(y + 1, 1, 28) ELSE Date(y, m + 1, 28)
Prev28(y, m) == IF m = 1 THEN Date(y - 1, 12, 28) ELSE Date(y, m - 1, 28)

\* A date as one number, ordered as the calendar is.
Ord(dt) == dt.y * 10000 + dt.m * 100 + dt.d

\* C1: on and after the 28th the period runs from the 28th of today's month
\* to the 28th of the next month (on the 28th itself it starts today);
\* before the 28th it runs from the 28th of the previous month to the 28th
\* of today's month.  Both ends fall on a 28th, one calendar month apart,
\* across a year change too.  Stated of the run of the day, once it has
\* ended.
PeriodContract ==
    pc = "idle" =>
      /\ today.d >= 28 =>
            /\ run.period_start = Date(today.y, today.m, 28)
            /\ run.period_end = Next28(today.y, today.m)
      /\ today.d = 28 => run.period_start = today
      /\ today.d < 28 =>
            /\ run.period_end = Date(today.y, today.m, 28)
            /\ run.period_start = Prev28(today.y, today.m)
      /\ run.period_start.d = 28
      /\ run.period_end.d = 28
      /\ run.period_end = Next28(run.period_start.y, run.period_start.m)

\* C1 witness: the walk reaches 28 December, and the period computed there
\* starts that day and ends on 28 January of the next year.
PeriodContractWitness ==
    /\ pc = "idle"
    /\ today = Date(2024, 12, 28)
    /\ run.period_start = Date(2024, 12, 28)
    /\ run.period_end = Date(2025, 1, 28)

\* C10: today lies inside the period computed for it, and from the run of
\* one day to the run of the next the period stays as it was unless the new
\* day is a 28th, when the new period starts where the old one ended.
PeriodsTile ==
    /\ [](pc = "idle" => /\ Ord(run.period_start) <= Ord(today)
                         /\ Ord(today) < Ord(run.period_end))
    /\ [][(pc = "read" /\ pc' = "idle") =>
            IF today.d = 28
            THEN /\ run'.period_start = run.period_end
                 /\ run'.period_start # run.period_start
            ELSE /\ run'.period_start = run.period_start
                 /\ run'.period_end = run.period_end]_vars

\* C10 witness: the walk has stepped from 27 to 28 February of a leap year
\* and the period now starts on that 28th.
PeriodsTileWitness ==
    /\ pc = "idle"
    /\ today = Date(2024, 2, 28)
    /\ run.period_start = Date(2024, 2, 28)
    /\ run.period_end = Date(2024, 3, 28)

\* The positions in the sheet of the rows of a frame.
Idx(df) == {df[i].idx : i \in 1..Len(df)}

\* C2: of the coerced expense rows the filter keeps exactly those with
\* start <= purchase date < end, and of the coerced income rows exactly
\* those with start <= date < end.
FilterHalfOpen ==
    run.status = "ok" =>
      /\ Idx(run.expenses_period) =
           {x.idx : x \in {y \in {run.expenses_df[i] : i \in 1..Len(run.expenses_df)} :
                                 /\ Ord(run.period_start) <= Ord(y.Purchase_Date)
                                 /\ Ord(y.Purchase_Date) < Ord(run.period_end)}}
      /\ Idx(run.income_period) =
           {x.idx : x \in {y \in {run.income_df[i] : i \in 1..Len(run.income_df)} :
                                 /\ Ord(run.period_start) <= Ord(y.Date)
                                 /\ Ord(y.Date) < Ord(run.period_end)}}

\* C2 witness: today is 2024-03-15; an expense row and an income row dated
\* 2024-02-28 are kept, and an expense row and an income row dated
\* 2024-03-28 are coerced but not kept.
FilterHalfOpenWitness ==
    /\ today = Date(2024, 3, 15)
    /\ run.status = "ok"
    /\ \E i, j \in 1..Len(run.expenses_df) :
          /\ run.expenses_df[i].Purchase_Date = Date(2024, 2, 28)
          /\ run.expenses_df[i].idx \in Idx(run.expenses_period)
          /\ run.expenses_df[j].Purchase_Date = Date(2024, 3, 28)
          /\ run.expenses_df[j].idx \notin Idx(run.expenses_period)
    /\ \E i, j \in 1..Len(run.income_df) :
          /\ run.income_df[i].Date = Date(2024, 2, 28)
          /\ run.income_df[i].idx \in Idx(run.income_period)
          /\ run.income_df[j].Date = Date(2024, 3, 28)
          /\ run.income_df[j].idx \notin Idx(run.income_period)

\* C3: whatever the Expenses sheet holds, the Expenses tab, once its run has
\* ended, shows the category
\* table with exactly the target categories, in their order, each with a
\* sum that is not negative and equals the period spend of the category.
CategoryTableAlways ==
    (menu = "Expenses" /\ pc = "idle") =>
      /\ "category_spending" \in run.rendered
      /\ Len(run.category_spending) = Len(target_categories)
      /\ \A k \in 1..Len(target_categories) :
            /\ run.category_spending[k].Category = target_categories[k]
            /\ run.category_spending[k].Amount >= 0
            /\ run.category_spending[k].Amount =
                 AmountSum(SelectSeq(run.expenses_period,
                     LAMBDA r : r.Category = target_categories[k]))

\* C4: the run of a submission of one of this page's forms appends a row
\* only when its description is not empty and its amount is positive;
\* otherwise both sheets stay as they were.
RejectedBeforeAppend ==
    [][(pc \in {"read", "form", "stamped"} /\ other' = other) =>
         /\ Len(ws_expenses') > Len(ws_expenses) =>
               /\ ws_expenses'[Len(ws_expenses')].Item # ""
               /\ ws_expenses'[Len(ws_expenses')].Amount.val > 0
         /\ Len(ws_income') > Len(ws_income) =>
               /\ ws_income'[Len(ws_income')].Description # ""
               /\ ws_income'[Len(ws_income')].Income_Amount.val > 0]_vars

\* C5: a row whose amount is not a positive number, or whose date is not a
\* calendar date, adds nothing to the totals of the Income tab: each total
\* is the sum over the well-formed rows of the period alone.
MalformedRowsAddNothing ==
    "inc_exp_df" \in run.rendered =>
      /\ run.inc_exp_df[2].Amount =
           AmountSum(SelectSeq(run.expenses_period, LAMBDA r : r.Amount.v > 0))
      /\ run.inc_exp_df[1].Amount =
           IncomeAmountSum(SelectSeq(run.income_period,
                                     LAMBDA r : r.Income_Amount.v > 0))

\* C6: in the budget table every row has remaining = total budget - spend,
\* a negative remaining is shown as a text other than the one of a remaining
\* of zero, and the chart colours exactly the over-budget rows red.
OverBudgetShown ==
    "display_df" \in run.rendered =>
      \A k \in 1..Len(run.df_merged) :
         LET row == run.df_merged[k]
         IN  /\ row.Remaining = row.Total_Budget - row.Amount
             /\ row.Remaining < 0 =>
                   run.display_df[k].Remaining # DisplayCell(0)
             /\ run.bar[k] = "red" <=> row.Amount > row.Total_Budget

\* C7: with a Budget sheet that is not empty, a run that gets as far as the
\* Budget tab shows the report, one row per budget row, and a category
\* without spend in the period has spend 0 and remaining = total budget.
BudgetReportAlways ==
    (pc = "idle" /\ run.status = "ok" /\ menu = "Budget" /\ ws_budget # <<>>) =>
      /\ "display_df" \in run.rendered
      /\ Len(run.df_merged) = Len(ws_budget)
      /\ \A k \in 1..Len(run.df_merged) :
            (\A i \in 1..Len(run.expenses_period) :
                run.expenses_period[i].Category # run.df_merged[k].Category)
            => /\ run.df_merged[k].Amount = 0
               /\ run.df_merged[k].Remaining = ws_budget[k].Total_Budget

\* Timestamp a is not earlier than timestamp b.
StampNotBefore(a, b) ==
    Ord(a) > Ord(b) \/ (Ord(a) = Ord(b) /\ a.s >= b.s)

\* The timestamp of the coerced expense row at position ix of the sheet.
StampAt(ix) ==
    (CHOOSE r \in {run.expenses_df[i] : i \in 1..Len(run.expenses_df)} :
        r.idx = ix).Timestamp

\* C8: the recent-transactions table lists the coerced rows by timestamp,
\* the most recent first, cut to the RecentN most recent.
RecentByTimestamp ==
    "df_show" \in run.rendered =>
      /\ \A i, j \in 1..Len(run.df_show) :
            i < j => StampNotBefore(StampAt(run.df_show[i].idx),
                                    StampAt(run.df_show[j].idx))
      /\ Len(run.df_show) =
           (IF Len(run.expenses_df) <= RecentN
            THEN Len(run.expenses_df) ELSE RecentN)
      /\ \A i \in 1..Len(run.expenses_df) :
            run.expenses_df[i].idx \in Idx(run.df_show)
            \/ \A j \in 1..Len(run.df_show) :
                  StampNotBefore(StampAt(run.df_show[j].idx),
                                 run.expenses_df[i].Timestamp)

\* C9: a sheet row with a numeric amount and a valid purchase date is kept
\* whatever its timestamp cell holds: it is among the coerced rows, and
\* among the rows of the period when its purchase date lies in the period.
TimestampOptional ==
    run.status = "ok" =>
      \A i \in 1..Len(run.expenses_records) :
         LET cells == run.expenses_records[i]
             date == to_datetime(cells.Purchase_Date)
         IN  (cells.Amount.num /\ date # NaT)
             => /\ i \in Idx(run.expenses_df)
                /\ (Ord(run.period_start) <= Ord(date)
                      /\ Ord(date) < Ord(run.period_end))
                   => i \in Idx(run.expenses_period)

=============================================================================
